---- MODULE Spec2Model ----
(***************************************************************************)
(* A model of the ray tracer's world pipeline (World::intersect_world,     *)
(* shade_hit, color_at, is_shadow), of Plane::local_intersect, of the CSG  *)
(* filter and of the camera's sequential and parallel render.              *)
(*                                                                         *)
(* Geometry is carried out exactly on an integer lattice in the plane:     *)
(* one lattice unit is 1/Radius of the unit sphere's radius and half of    *)
(* EPSILON, ray                                                            *)
(* directions are the four unit axis vectors, and an operation is only     *)
(* taken on inputs for which every square root and every normalisation is  *)
(* exact (the InDomain predicates).  f64 values are lattice integers; NaN  *)
(* and rounding are outside the model.                                     *)
(***************************************************************************)
EXTENDS Integers, Sequences, FiniteSets, TLC

VARIABLES
    objects,    \* World.objects: the spheres, in insertion order
    light,      \* World.light: Option<PointLight>
    added,      \* the ids of the objects handed to add_object, in call order
    ret,        \* the last World call: its name, arguments, outcome and call trace
    planeRet,   \* the last Plane::local_intersect call: plane, ray and result
    patRet,     \* the last Gradient::pattern_at call: pattern, point and result
    csgNode,    \* the CSG node being intersected: operation, left, right
    csgXs,      \* the merged, sorted intersections of its two children
    csgPos,     \* the filter's position in csgXs
    inl,        \* the filter is inside the left child
    inr,        \* the filter is inside the right child
    csgOut,     \* the intersections the filter has kept
    csgRet,     \* the last CSG call: its name, arguments and result
    opts,       \* the render options: parallel, batch_size, hsize, vsize
    status,     \* the render call: idle, running, returned, panicked, saved
    canvas,     \* the canvas the parallel render's workers write into
    progress,   \* per batch, the number of its pixels computed and written
    failed,     \* the batches whose worker panicked
    writers,    \* per canvas index, the batches that have written it
    tries,      \* per canvas index, the number of times its colour was computed
    result,     \* the canvas the render call returned to its caller
    image,      \* the buffer handed to image::save_buffer
    view,       \* the preview's View: from, to, up, fov, need_update, texture
    win_fields, \* the preview's WindowFields: the texts of from, to, up, fov
    pc,         \* the preview loop's position in its frame
    frame       \* what the current frame has done so far

worldVars == <<objects, light, added, ret>>

planeVars == <<planeRet>>

patternVars == <<patRet>>

csgVars == <<csgNode, csgXs, csgPos, inl, inr, csgOut, csgRet>>

renderVars == <<opts, status, canvas, progress, failed, writers, tries, result, image>>

viewVars == <<view, win_fields, pc, frame>>

vars == <<objects, light, added, ret, planeRet, patRet, csgNode, csgXs, csgPos, inl, inr, csgOut, csgRet,
          opts, status, canvas, progress, failed, writers, tries, result, image,
          view, win_fields, pc, frame>>

(***************************************************************************)
(* Bounds of the model.                                                    *)
(***************************************************************************)
MaxObjects == 2
MaxCoord == 3
MaxPlanes == 2
MaxH == 2
MaxV == 2
MaxBatch == 5

(***************************************************************************)
(* Option<T>.                                                              *)
(***************************************************************************)
None == [some |-> FALSE]

Some(v) == [some |-> TRUE, val |-> v]

\* the element of a singleton: The({e(x) : x \in {v}}) is e with x bound to the
\* value of v, a let binding evaluated once
The(S) == CHOOSE x \in S : TRUE

(***************************************************************************)
(* Tuples: points and vectors <<x, y>> of the lattice.                     *)
(***************************************************************************)
Radius == 2

EPSILON == 2

Coord == (0 - MaxCoord)..MaxCoord

Points == Coord \X Coord

Directions == {<<1, 0>>, <<0 - 1, 0>>, <<0, 1>>, <<0, 0 - 1>>}

Add(a, b) == <<a[1] + b[1], a[2] + b[2]>>

Sub(a, b) == <<a[1] - b[1], a[2] - b[2]>>

Mul(v, k) == <<v[1] * k, v[2] * k>>

Neg(v) == <<0 - v[1], 0 - v[2]>>

Dot(a, b) == a[1] * b[1] + a[2] * b[2]

Abs(n) == IF n < 0 THEN 0 - n ELSE n

Sign(n) == IF n < 0 THEN 0 - 1 ELSE IF n > 0 THEN 1 ELSE 0

\* the floor of the square root of n >= 0
ISqrt(n) == CHOOSE k \in 0..n : k * k <= n /\ (k + 1) * (k + 1) > n

IsSquare(n) == n >= 0 /\ ISqrt(n) * ISqrt(n) = n

\* a non-zero vector along one axis: its magnitude and its normalisation are exact
IsAxis(v) == (v[1] = 0) # (v[2] = 0)

magnitude(v) == ISqrt(Dot(v, v))

normalize(v) == <<Sign(v[1]), Sign(v[2])>>

Ray(origin, direction) == [origin |-> origin, direction |-> direction]

position(r, t) == Add(r.origin, Mul(r.direction, t))

(***************************************************************************)
(* Sphere: a unit sphere under a translation (its centre).                 *)
(***************************************************************************)
Sphere(id, center) == [id |-> id, center |-> center]

Intersection(t, object) == [t |-> t, object |-> object]

Discriminant(s, r) ==
    LET sphere_to_ray == Sub(r.origin, s.center)
        a == Dot(r.direction, r.direction)
        b == 2 * Dot(r.direction, sphere_to_ray)
        c == Dot(sphere_to_ray, sphere_to_ray) - Radius * Radius
    IN  b * b - 4 * a * c

\* Sphere::intersect: no root when the discriminant is negative, else two
\* roots in ascending order (a tangent ray gives two equal roots)
intersect(s, r) ==
    LET sphere_to_ray == Sub(r.origin, s.center)
        a == Dot(r.direction, r.direction)
        b == 2 * Dot(r.direction, sphere_to_ray)
        d == Discriminant(s, r)
    IN  IF d < 0
        THEN None
        ELSE Some(<<Intersection(((0 - b) - ISqrt(d)) \div (2 * a), s),
                    Intersection(((0 - b) + ISqrt(d)) \div (2 * a), s)>>)

\* the roots of r on s are lattice values
ExactOn(s, r) ==
    LET d == Discriminant(s, r)
    IN  d < 0 \/ (IsSquare(d) /\ ISqrt(d) % 2 = 0)

ExactRay(objs, r) ==
    /\ IsAxis(r.direction)
    /\ \A k \in 1..Len(objs) : ExactOn(objs[k], r)

(***************************************************************************)
(* Intersection::hit, Intersection::prepare_computations and               *)
(* Material::lighting.                                                     *)
(***************************************************************************)
\* the first intersection of the list, in list order, whose t is not negative
hit(xs) ==
    IF \E k \in 1..Len(xs) : xs[k].t >= 0
    THEN Some(xs[CHOOSE k \in 1..Len(xs) :
                    /\ xs[k].t >= 0
                    /\ \A j \in 1..(k - 1) : xs[j].t < 0])
    ELSE None

normal_at(s, point) == normalize(Sub(point, s.center))

prepare_computations(i, r) ==
    LET point == position(r, i.t)
        eyev == Neg(r.direction)
        n == normal_at(i.object, point)
        inside == Dot(n, eyev) < 0
        normalv == IF inside THEN Neg(n) ELSE n
    IN  [t |-> i.t, object |-> i.object, point |-> point, eyev |-> eyev,
         normalv |-> normalv, inside |-> inside,
         over_point |-> Add(point, Mul(normalv, EPSILON))]

\* the colour Material::lighting computes, kept as the term of its arguments
lighting(material, l, point, eyev, normalv, shadowed) ==
    [material |-> material, light |-> l, point |-> point, eyev |-> eyev,
     normalv |-> normalv, shadowed |-> shadowed]

BLACK == [r |-> 0, g |-> 0, b |-> 0]

(***************************************************************************)
(* World.  A call returns [outcome, val, calls]: outcome "ok" with the     *)
(* returned value or "panic" (the call unwinds and returns nothing), and   *)
(* calls is the sequence of the calls made, in order.                      *)
(***************************************************************************)
Ok(v, calls) == [outcome |-> "ok", val |-> v, calls |-> calls]

Panic(calls) == [outcome |-> "panic", calls |-> calls]

World(objs, l) == [objects |-> objs, light |-> l]

\* the loop of intersect_world: every intersection of every object, in object order
RECURSIVE Collect(_, _, _)
Collect(objs, r, k) ==
    IF k > Len(objs)
    THEN <<>>
    ELSE LET o_xs == intersect(objs[k], r)
         IN  (IF o_xs.some THEN o_xs.val ELSE <<>>) \o Collect(objs, r, k + 1)

\* the place of xs[j] after a stable sort on t: behind every element with a
\* smaller t and every earlier element with the same t
Rank(xs, j) ==
    1 + Cardinality({k \in 1..Len(xs) :
                        xs[k].t < xs[j].t \/ (xs[k].t = xs[j].t /\ k < j)})

\* xs.sort_by(|a, b| a.partial_cmp(b).unwrap()): a stable sort on t
SortByT(xs) ==
    [i \in 1..Len(xs) |-> xs[CHOOSE j \in 1..Len(xs) : Rank(xs, j) = i]]

\* intersect_world without its sort
intersect_world_unsorted(w, r) ==
    The({IF xs = <<>> THEN None ELSE Some(xs) :
            xs \in {Collect(w.objects, r, 1)}})

intersect_world(w, r) ==
    The({IF xs = <<>> THEN None ELSE Some(SortByT(xs)) :
            xs \in {Collect(w.objects, r, 1)}})

\* the rest of is_shadow once the ray to the light has met the world:
\* intersections is what intersect_world returned, le the comparison made
ShadowOf(call, r, distance, intersections, le) ==
    LET iw == <<[fn |-> "intersect_world", ray |-> r]>>
    IN  IF intersections.some
        THEN The({Ok(/\ h.some
                     /\ IF le THEN h.val.t <= distance ELSE h.val.t < distance,
                     call \o iw \o <<[fn |-> "hit", result |-> h]>>) :
                    h \in {hit(intersections.val)}})
        ELSE Ok(FALSE, call \o iw)

\* is_shadow comparing the hit with the light's distance by <=
is_shadow_le(w, point) ==
    LET call == <<[fn |-> "is_shadow", point |-> point]>>
    IN  IF ~w.light.some
        THEN Panic(call)
        ELSE The({The({ShadowOf(call, Ray(point, normalize(v)), magnitude(v),
                                intersections, TRUE) :
                         intersections \in
                             {intersect_world(w, Ray(point, normalize(v)))}}) :
                    v \in {Sub(w.light.val, point)}})

\* is_shadow taking a world without a light as one in which nothing is shadowed
is_shadow_lenient(w, point) ==
    IF ~w.light.some
    THEN Ok(FALSE, <<[fn |-> "is_shadow", point |-> point]>>)
    ELSE is_shadow_le(w, point)

is_shadow(w, point) ==
    LET call == <<[fn |-> "is_shadow", point |-> point]>>
    IN  IF ~w.light.some
        THEN Panic(call)
        ELSE The({The({ShadowOf(call, Ray(point, normalize(v)), magnitude(v),
                                intersections, FALSE) :
                         intersections \in
                             {intersect_world(w, Ray(point, normalize(v)))}}) :
                    v \in {Sub(w.light.val, point)}})

\* shade_hit answering black for a world without a light
shade_hit_black(w, comps) ==
    LET call == <<[fn |-> "shade_hit", comps |-> comps]>>
    IN  IF ~w.light.some
        THEN Ok(BLACK, call)
        ELSE The({Ok(lighting(comps.object.id, w.light.val, comps.over_point,
                              comps.eyev, comps.normalv, shadowed.val),
                     call \o shadowed.calls) :
                    shadowed \in {is_shadow(w, comps.over_point)}})

shade_hit(w, comps) ==
    LET call == <<[fn |-> "shade_hit", comps |-> comps]>>
    IN  The({IF shadowed.outcome = "panic"
             THEN Panic(call \o shadowed.calls)
             ELSE IF ~w.light.some
                  THEN Panic(call \o shadowed.calls)
                  ELSE Ok(lighting(comps.object.id, w.light.val,
                                   comps.over_point, comps.eyev, comps.normalv,
                                   shadowed.val),
                          call \o shadowed.calls) :
                shadowed \in {is_shadow(w, comps.over_point)}})

\* the rest of color_at once an intersection i has been chosen for shading
ShadeOf(w, r, i, calls) ==
    The({The({[c EXCEPT !.calls = calls \o c.calls] :
                c \in {shade_hit(w, comps)}}) :
            comps \in {prepare_computations(i, r)}})

\* color_at demanding the light before it intersects the world
color_at_expect_light(w, r) ==
    LET call == <<[fn |-> "color_at", ray |-> r],
                  [fn |-> "intersect_world", ray |-> r]>>
    IN  IF ~w.light.some
        THEN Panic(<<[fn |-> "color_at", ray |-> r]>>)
        ELSE The({IF xs.some
                  THEN The({IF h.some
                            THEN ShadeOf(w, r, h.val,
                                         call \o <<[fn |-> "hit", result |-> h]>>)
                            ELSE Ok(BLACK,
                                    call \o <<[fn |-> "hit", result |-> h]>>) :
                              h \in {hit(xs.val)}})
                  ELSE Ok(BLACK, call) :
                     xs \in {intersect_world(w, r)}})

\* color_at shading the first intersection of the list, whatever its sign
color_at_first(w, r) ==
    LET call == <<[fn |-> "color_at", ray |-> r],
                  [fn |-> "intersect_world", ray |-> r]>>
    IN  The({IF xs.some
             THEN ShadeOf(w, r, xs.val[1], call)
             ELSE Ok(BLACK, call) :
                xs \in {intersect_world(w, r)}})

\* color_at shading the nearest intersection behind the ray when there is no hit
color_at_behind(w, r) ==
    LET call == <<[fn |-> "color_at", ray |-> r],
                  [fn |-> "intersect_world", ray |-> r]>>
    IN  The({IF xs.some
             THEN The({ShadeOf(w, r,
                               IF h.some THEN h.val ELSE xs.val[Len(xs.val)],
                               call \o <<[fn |-> "hit", result |-> h]>>) :
                         h \in {hit(xs.val)}})
             ELSE Ok(BLACK, call) :
                xs \in {intersect_world(w, r)}})

color_at(w, r) ==
    LET call == <<[fn |-> "color_at", ray |-> r],
                  [fn |-> "intersect_world", ray |-> r]>>
    IN  The({IF xs.some
             THEN The({IF h.some
                       THEN ShadeOf(w, r, h.val,
                                    call \o <<[fn |-> "hit", result |-> h]>>)
                       ELSE Ok(BLACK,
                               call \o <<[fn |-> "hit", result |-> h]>>) :
                         h \in {hit(xs.val)}})
             ELSE Ok(BLACK, call) :
                xs \in {intersect_world(w, r)}})

(***************************************************************************)
(* The inputs of the model and the inputs on which the lattice is exact.   *)
(***************************************************************************)
\* self.objects.push(object) at the front of the list
add_object_front(objs, object) == <<object>> \o objs

\* self.objects.push(object)
add_object(objs, object) == Append(objs, object)

\* self.objects.get(index): indices count from 0
get_object(objs, index) ==
    IF index < Len(objs) THEN Some(objs[index + 1]) ELSE None

\* self.objects.get_mut(index)
get_object_mut(objs, index) ==
    IF index < Len(objs) THEN Some(objs[index + 1]) ELSE None

\* the indices the getters are called with: inside the list, at its length
\* and beyond it
Indices == 0..(MaxObjects + 1)

Centers == {<<0, 0>>, <<Radius + 1, 0>>, <<0, Radius>>}

LightPositions == {<<0 - Radius, 0>>, <<0, Radius + 1>>}

Rays == {Ray(o, d) : o \in Points, d \in Directions}

InDomainShadow(w, point) ==
    w.light.some =>
        LET v == Sub(w.light.val, point)
        IN  IsAxis(v) /\ ExactRay(w.objects, Ray(point, normalize(v)))

InDomainShade(w, comps) == InDomainShadow(w, comps.over_point)

InDomainColorAt(w, r) ==
    /\ ExactRay(w.objects, r)
    /\ LET xs == intersect_world(w, r)
       IN  (xs.some /\ hit(xs.val).some) =>
               InDomainShade(w, prepare_computations(hit(xs.val).val, r))


(***************************************************************************)
(* The preview (examples/show_render): the View and the texts of the       *)
(* camera fields.  A point or vector is kept by its x coordinate, a whole  *)
(* number; a text is a string.                                             *)
(***************************************************************************)
MaxVal == 1

\* the coordinates the camera fields are given
Vals == (0 - MaxVal)..MaxVal

UpVals == {0, 1}

FovVals == {1, 2}

\* serde_json::to_string of a point or vector: a float is written with its
\* fraction
FmtPoint(n) == "{x:" \o ToString(n) \o ".0}"

\* the same value written as a JSON whole number
FmtPointWhole(n) == "{x:" \o ToString(n) \o "}"

\* f64::to_string: a whole float is written without a fraction
FmtFov(n) == ToString(n)

FmtFovFraction(n) == ToString(n) \o ".0"

\* serde_json::from_str::<Point>: the value, or None for an error
ParsePoint(t) ==
    IF \E n \in Vals : t \in {FmtPoint(n), FmtPointWhole(n)}
    THEN Some(CHOOSE n \in Vals : t \in {FmtPoint(n), FmtPointWhole(n)})
    ELSE None

\* str::parse::<f64>: the value, or None for an error
ParseFov(t) ==
    IF \E n \in FovVals : t \in {FmtFov(n), FmtFovFraction(n)}
    THEN Some(CHOOSE n \in FovVals : t \in {FmtFov(n), FmtFovFraction(n)})
    ELSE None

\* the picture of a camera at from, looking at to, with up and fov
Texture(from, to, up, fov) == [from |-> from, to |-> to, up |-> up, fov |-> fov]

\* View::new: the first picture is rendered at once
NewView ==
    [from |-> 0 - 1, to |-> 0, up |-> 1, fov |-> 1, need_update |-> FALSE,
     texture |-> Texture(0 - 1, 0, 1, 1)]

\* WindowFields::from_view
from_view(v) ==
    [from |-> FmtPoint(v.from), to |-> FmtPoint(v.to), up |-> FmtPoint(v.up),
     fov |-> FmtFov(v.fov)]

\* nothing has been done in this frame; pre and txt are the view and the
\* texts to_view was given
NewFrame(v) ==
    [rotated |-> FALSE, res |-> "none", rendered |-> FALSE, pre |-> v,
     txt |-> from_view(v)]

ViewNew ==
    /\ view = NewView
    /\ win_fields = from_view(NewView)
    /\ pc = "frame_start"
    /\ frame = NewFrame(NewView)

(***************************************************************************)
(* The world as a state machine: scene construction and the calls.         *)
(***************************************************************************)
\* The caller is between two calls: it builds the scene and makes a call only
\* there; a call's result stays in ret until the caller takes it (Resume).
Built == ret.op = "idle"

\* World::new
WorldNew ==
    /\ objects = <<>>
    /\ light = None
    /\ added = <<>>
    /\ ret = [op |-> "idle"]

PlaneIdle == planeRet = [op |-> "idle"]

PatternIdle == patRet = [op |-> "idle"]

CsgIdle ==
    /\ csgNode = None
    /\ csgXs = <<>>
    /\ csgPos = 0
    /\ inl = FALSE
    /\ inr = FALSE
    /\ csgOut = <<>>
    /\ csgRet = [op |-> "idle"]

\* no render call has been made
RenderIdle ==
    /\ status = "idle"
    /\ canvas = <<>>
    /\ progress = <<>>
    /\ failed = {}
    /\ writers = <<>>
    /\ tries = <<>>
    /\ result = None
    /\ image = None

Init ==
    /\ WorldNew
    /\ PlaneIdle
    /\ PatternIdle
    /\ ViewNew
    /\ CsgIdle
    /\ opts = None
    /\ RenderIdle

\* the scenes of the model hold their spheres at distinct centres
AddObject(c) ==
    /\ Built
    /\ Len(objects) < MaxObjects
    /\ \A k \in 1..Len(objects) : objects[k].center # c
    /\ objects' = add_object(objects, Sphere(Len(objects) + 1, c))
    /\ added' = Append(added, Len(objects) + 1)
    /\ UNCHANGED <<light, ret, planeVars, csgVars, renderVars, patternVars, viewVars>>

SetLight(l) ==
    /\ Built
    /\ light' = Some(l)
    /\ UNCHANGED <<objects, added, ret, planeVars, csgVars, renderVars, patternVars, viewVars>>

\* intersect_world putting the world's own object list in reverse order
IntersectWorld_reordering(r) ==
    /\ Built
    /\ ExactRay(objects, r)
    /\ ret' = [op |-> "intersect_world", ray |-> r,
               res |-> Ok(intersect_world(World(objects, light), r), <<>>)]
    /\ objects' = [k \in 1..Len(objects) |-> objects[Len(objects) + 1 - k]]
    /\ UNCHANGED <<light, added, planeVars, csgVars, renderVars, patternVars, viewVars>>

IntersectWorld(r) ==
    /\ Built
    /\ ExactRay(objects, r)
    /\ ret' = [op |-> "intersect_world", ray |-> r,
               res |-> Ok(intersect_world(World(objects, light), r), <<>>)]
    /\ UNCHANGED <<objects, light, added, planeVars, csgVars, renderVars, patternVars, viewVars>>

ColorAt(r) ==
    /\ Built
    /\ InDomainColorAt(World(objects, light), r)
    /\ ret' = [op |-> "color_at", ray |-> r,
               res |-> color_at(World(objects, light), r)]
    /\ UNCHANGED <<objects, light, added, planeVars, csgVars, renderVars, patternVars, viewVars>>

IsShadow(p) ==
    /\ Built
    /\ InDomainShadow(World(objects, light), p)
    /\ ret' = [op |-> "is_shadow", point |-> p,
               res |-> is_shadow(World(objects, light), p)]
    /\ UNCHANGED <<objects, light, added, planeVars, csgVars, renderVars, patternVars, viewVars>>

\* shade_hit on the computations of the j-th intersection of object k with r
ShadeHit(k, j, r) ==
    /\ Built
    /\ ExactRay(objects, r)
    /\ intersect(objects[k], r).some
    /\ LET comps == prepare_computations(intersect(objects[k], r).val[j], r)
       IN  /\ InDomainShade(World(objects, light), comps)
           /\ ret' = [op |-> "shade_hit", comps |-> comps,
                      res |-> shade_hit(World(objects, light), comps)]
    /\ UNCHANGED <<objects, light, added, planeVars, csgVars, renderVars, patternVars, viewVars>>

\* get_object(index): a shared reference to the object at index, or None
GetObject(index) ==
    /\ Built
    /\ ret' = [op |-> "get_object", index |-> index,
               res |-> Ok(get_object(objects, index), <<>>)]
    /\ UNCHANGED <<objects, light, added, planeVars, csgVars, renderVars, patternVars, viewVars>>

\* get_object_mut(index): a mutable reference to the object at index, or
\* None; the call itself writes nothing
GetObjectMut(index) ==
    /\ Built
    /\ ret' = [op |-> "get_object_mut", index |-> index,
               res |-> Ok(get_object_mut(objects, index), <<>>)]
    /\ UNCHANGED <<objects, light, added, planeVars, csgVars, renderVars, patternVars, viewVars>>

\* the caller takes the result of its call
Resume ==
    /\ ~Built
    /\ ret' = [op |-> "idle"]
    /\ UNCHANGED <<objects, light, added, planeVars, csgVars, renderVars, patternVars, viewVars>>

Next ==
    \/ \E c \in Centers : AddObject(c)
    \/ \E l \in LightPositions : SetLight(l)
    \/ \E r \in Rays : IntersectWorld(r)
    \/ \E r \in Rays : ColorAt(r)
    \/ \E p \in Points : IsShadow(p)
    \/ \E k \in 1..Len(objects), j \in 1..2, r \in Rays : ShadeHit(k, j, r)
    \/ \E index \in Indices : GetObject(index)
    \/ \E index \in Indices : GetObjectMut(index)
    \/ Resume

Spec == Init /\ [][Next]_vars

(***************************************************************************)
(* Properties of the world pipeline.                                       *)
(***************************************************************************)
Min(S) == CHOOSE m \in S : \A x \in S : m <= x

\* the intersections of object k of the current world with r, as a sequence
XsOf(k, r) ==
    IF intersect(objects[k], r).some THEN intersect(objects[k], r).val ELSE <<>>

\* every intersection of every object of the current world with r
AllXs(r) ==
    UNION {{XsOf(k, r)[j] : j \in 1..Len(XsOf(k, r))} : k \in 1..Len(objects)}

\* the non-negative t of the intersections of the current world with r
NonNegT(r) == {x.t : x \in {y \in AllXs(r) : y.t >= 0}}

Count(xs, x) == Cardinality({j \in 1..Len(xs) : xs[j] = x})

RECURSIVE TotalLen(_, _)
TotalLen(r, k) == IF k = 0 THEN 0 ELSE Len(XsOf(k, r)) + TotalLen(r, k - 1)

CallsOf(fn) == {k \in 1..Len(ret.res.calls) : ret.res.calls[k].fn = fn}

\* C3: intersect_world returns None exactly when no object is intersected;
\* otherwise its list holds every intersection of every object, each as often
\* as its object reports it and nothing else (so its length is the sum of the
\* per-object counts), in ascending order of t, whatever the insertion order
\* of the objects.
C3_IntersectWorld ==
    ret.op = "intersect_world" =>
        LET r == ret.ray
            res == ret.res.val
        IN  /\ ret.res.outcome = "ok"
            /\ ~res.some <=> \A k \in 1..Len(objects) : ~intersect(objects[k], r).some
            /\ res.some =>
                /\ Len(res.val) = TotalLen(r, Len(objects))
                /\ \A j \in 1..(Len(res.val) - 1) : res.val[j].t <= res.val[j + 1].t
                /\ \A j \in 1..Len(res.val) : res.val[j] \in AllXs(r)
                /\ \A k \in 1..Len(objects) : \A x \in AllXs(r) :
                       x.object = objects[k] => Count(res.val, x) = Count(XsOf(k, r), x)

\* an intersect_world call whose objects, taken in insertion order, report
\* their intersections out of order
C3_Witness ==
    /\ ret.op = "intersect_world"
    /\ ret.res.val.some
    /\ Len(ret.res.val.val) = 4
    /\ XsOf(1, ret.ray)[1].t > XsOf(2, ret.ray)[1].t
    /\ \E x \in AllXs(ret.ray) : x.t < 0

\* C4: the intersection color_at shades, and the one is_shadow tests, is the
\* one with the lowest non-negative t of the world's intersections with the
\* ray; a negative t is never selected, and there is no hit exactly when the
\* ray has no intersection or only negative ones.
C4_HitIsLowestNonNegative ==
    /\ ret.op = "color_at" =>
        /\ (CallsOf("shade_hit") # {}) <=> (NonNegT(ret.ray) # {})
        /\ \A k \in CallsOf("shade_hit") :
               /\ ret.res.calls[k].comps.t = Min(NonNegT(ret.ray))
               /\ ret.res.calls[k].comps.t >= 0
    /\ ret.op \in {"color_at", "is_shadow", "shade_hit"} =>
        \A k \in CallsOf("hit") :
            LET r == ret.res.calls[k - 1].ray
                h == ret.res.calls[k].result
            IN  /\ ret.res.calls[k - 1].fn = "intersect_world"
                /\ h.some <=> NonNegT(r) # {}
                /\ h.some => h.val.t = Min(NonNegT(r))

\* color_at shaded a hit although intersections lie behind the ray's origin
C4_Witness ==
    /\ ret.op = "color_at"
    /\ ret.res.outcome = "ok"
    /\ CallsOf("shade_hit") # {}
    /\ \E x \in AllXs(ret.ray) : x.t < 0
    /\ Cardinality(NonNegT(ret.ray)) > 1

\* C5: with a light, is_shadow(point) is true exactly when the ray from the
\* point toward the light has a hit (the lowest non-negative t over all
\* objects) whose t is strictly less than the distance to the light; it is
\* false when nothing is intersected, when every intersection is behind the
\* point and when the nearest hit is at or beyond the light.
C5_IsShadow ==
    (ret.op = "is_shadow" /\ light.some) =>
        LET v == Sub(light.val, ret.point)
            distance == Abs(v[1]) + Abs(v[2])
            r == Ray(ret.point, <<Sign(v[1]), Sign(v[2])>>)
        IN  /\ ret.res.outcome = "ok"
            /\ ret.res.val <=> (NonNegT(r) # {} /\ Min(NonNegT(r)) < distance)
            /\ AllXs(r) = {} => ~ret.res.val
            /\ (\A x \in AllXs(r) : x.t < 0) => ~ret.res.val
            /\ (NonNegT(r) # {} /\ Min(NonNegT(r)) >= distance) => ~ret.res.val

\* is_shadow answered false for a point whose nearest hit is exactly at the light
C5_Witness ==
    /\ ret.op = "is_shadow"
    /\ light.some
    /\ ret.res.outcome = "ok"
    /\ ~ret.res.val
    /\ LET v == Sub(light.val, ret.point)
           r == Ray(ret.point, <<Sign(v[1]), Sign(v[2])>>)
       IN  /\ NonNegT(r) # {}
           /\ Min(NonNegT(r)) = Abs(v[1]) + Abs(v[2])

\* C6: with a light, color_at returns black whenever the ray has no hit, both
\* when nothing is intersected and when every intersection has a negative t,
\* and then neither shade_hit nor is_shadow is invoked.
C6_ColorAtMiss ==
    (ret.op = "color_at" /\ light.some /\ NonNegT(ret.ray) = {}) =>
        /\ ret.res.outcome = "ok"
        /\ ret.res.val = BLACK
        /\ CallsOf("shade_hit") = {}
        /\ CallsOf("is_shadow") = {}

\* color_at on a ray all of whose intersections lie behind its origin
C6_Witness ==
    /\ ret.op = "color_at"
    /\ light.some
    /\ AllXs(ret.ray) # {}
    /\ NonNegT(ret.ray) = {}
    /\ ret.res.val = BLACK

\* C7: in a world without a light shade_hit and is_shadow always fail
\* fatally: neither returns a value, and shade_hit never defaults to black.
C7_NoLightIsFatal ==
    (~light.some /\ ret.op \in {"shade_hit", "is_shadow"}) =>
        /\ ret.res.outcome = "panic"
        /\ "val" \notin DOMAIN ret.res

\* shade_hit and is_shadow were called on a world that has objects and no light
C7_Witness ==
    /\ ~light.some
    /\ Len(objects) > 0
    /\ ret.op = "shade_hit"
    /\ ret.res.outcome = "panic"
    /\ CallsOf("is_shadow") # {}

\* the ids of the objects of the world, in list order
ObjectIds == [k \in 1..Len(objects) |-> objects[k].id]

\* C11: the world's objects are exactly the added objects in the order they
\* were added: World::new starts with no objects and no light, add_object
\* increases the count by one and appends at the end, no operation removes
\* or reorders an object, and get_object(i) / get_object_mut(i) return the
\* i-th added object for i below the count and None for i at or above it.
C11_ObjectsAppendOnly ==
    /\ (objects = <<>> /\ light = None /\ added = <<>>)
    /\ [](/\ ObjectIds = added
          /\ ret.op \in {"get_object", "get_object_mut"} =>
                 /\ ret.res.outcome = "ok"
                 /\ ret.index < Len(added) =>
                        /\ ret.res.val.some
                        /\ ret.res.val.val.id = added[ret.index + 1]
                        /\ ret.res.val.val = objects[ret.index + 1]
                 /\ ret.index >= Len(added) => ret.res.val = None)
    /\ [][/\ Len(objects') \in {Len(objects), Len(objects) + 1}
           /\ \A k \in 1..Len(objects) : objects'[k] = objects[k]
           /\ added' # added =>
                  /\ Len(objects') = Len(objects) + 1
                  /\ objects'[Len(objects')].id = added'[Len(added')]]_vars

\* the second of two added objects has been fetched by its index
C11_Witness ==
    /\ Len(added) = 2
    /\ ret.op = "get_object"
    /\ ret.index = 1
    /\ ret.res.val.some
    /\ ret.res.val.val.id = added[2]


\* the calls that take the world by shared reference
ReadOnlyCalls == {"intersect_world", "color_at", "shade_hit", "is_shadow"}

\* C14: intersect_world, color_at, shade_hit and is_shadow leave the world
\* unchanged: after any of them returns, the object list (count, order,
\* objects) and the light are the same as before the call.
C14_CallsLeaveWorldUnchanged ==
    [][(ret' # ret /\ ret'.op \in ReadOnlyCalls) =>
           (objects' = objects /\ light' = light /\ added' = added)]_vars

\* color_at has returned a colour on a lit world of two objects
C14_Witness ==
    /\ ret.op = "color_at"
    /\ ret.res.outcome = "ok"
    /\ ret.res.val # BLACK
    /\ Len(objects) = 2
    /\ light.some


\* C15: in a world whose light is absent, color_at(ray) fails fatally exactly
\* when the ray has a hit (an intersection with non-negative t), because
\* shade_hit is then reached; when the ray has no hit it returns black
\* without any failure.
C15_LightlessColorAt ==
    (ret.op = "color_at" /\ ~light.some) =>
        /\ ret.res.outcome = "panic" <=> NonNegT(ret.ray) # {}
        /\ ret.res.outcome = "panic" => CallsOf("shade_hit") # {}
        /\ NonNegT(ret.ray) = {} =>
               /\ ret.res.outcome = "ok"
               /\ ret.res.val = BLACK
               /\ CallsOf("shade_hit") = {}

\* color_at failed in a lightless world on a ray that starts inside an
\* object, with one intersection behind it and one ahead
C15_Witness ==
    /\ ret.op = "color_at"
    /\ ~light.some
    /\ ret.res.outcome = "panic"
    /\ \E x \in AllXs(ret.ray) : x.t < 0
    /\ NonNegT(ret.ray) # {}

(***************************************************************************)
(* Plane: the line y = 0 of the lattice (the local xz plane).  The ray's   *)
(* components are in units of EPSILON / 2 and the quotient -origin.y /     *)
(* direction.y is kept exactly, as a fraction in lowest terms.             *)
(***************************************************************************)
RECURSIVE GCD(_, _)
GCD(a, b) == IF b = 0 THEN a ELSE GCD(b, a % b)

\* a / b for b # 0
Quotient(a, b) ==
    LET g == GCD(Abs(a), Abs(b))
    IN  [num |-> Sign(a) * Sign(b) * (Abs(a) \div g), den |-> Abs(b) \div g]

Plane(id) == [id |-> id]

\* local_intersect with the parallel test widened to <=
local_intersect_le(plane, ray) ==
    IF Abs(ray.direction[2]) <= EPSILON
    THEN None
    ELSE Some(<<Intersection(Quotient(0 - ray.origin[2], ray.direction[2]), plane)>>)

local_intersect(plane, ray) ==
    IF Abs(ray.direction[2]) < EPSILON
    THEN None
    ELSE LET t == Quotient(0 - ray.origin[2], ray.direction[2])
         IN  Some(<<Intersection(t, plane)>>)

PlaneRays == {Ray(<<0, oy>>, <<dx, dy>>) : oy \in Coord, dx \in {0, 1}, dy \in Coord}

LocalIntersect(id, r) ==
    /\ planeRet' = [op |-> "local_intersect", plane |-> Plane(id), ray |-> r,
                    res |-> local_intersect(Plane(id), r)]
    /\ UNCHANGED <<worldVars, csgVars, renderVars, patternVars, viewVars>>

PlaneNext == \E id \in 1..MaxPlanes, r \in PlaneRays : LocalIntersect(id, r)

SpecPlane == Init /\ [][PlaneNext]_vars

\* C10: Plane::local_intersect returns None when the absolute value of the
\* ray direction's y component is below EPSILON, whatever the origin;
\* otherwise it returns exactly one intersection, tagged with the plane
\* itself, whose t is -origin.y / direction.y, of either sign.
C10_PlaneLocalIntersect ==
    planeRet.op = "local_intersect" =>
        LET oy == planeRet.ray.origin[2]
            dy == planeRet.ray.direction[2]
            res == planeRet.res
        IN  /\ (dy > 0 - EPSILON /\ dy < EPSILON) => ~res.some
            /\ (dy <= 0 - EPSILON \/ dy >= EPSILON) =>
                /\ res.some
                /\ Len(res.val) = 1
                /\ res.val[1].object = planeRet.plane
                /\ res.val[1].t.den > 0
                /\ res.val[1].t.num * dy = (0 - oy) * res.val[1].t.den

\* a ray whose direction's y component is EPSILON exactly, met behind its origin
C10_Witness ==
    /\ planeRet.op = "local_intersect"
    /\ planeRet.ray.direction[2] = EPSILON
    /\ planeRet.res.some
    /\ planeRet.res.val[1].t.num < 0


(***************************************************************************)
(* Gradient (patterns/gradient.rs).  Coordinates and colour channels are   *)
(* fixed-point numbers: the integer n stands for n / Scale.                *)
(***************************************************************************)
MaxX == 2

Scale == 4

\* f64::floor: the largest whole number not above x
Floor(x) == (x \div Scale) * Scale

\* f64::trunc: the whole part of x, rounding towards zero
Trunc(x) == Sign(x) * ((Abs(x) \div Scale) * Scale)

Color(red, green, blue) == [r |-> red, g |-> green, b |-> blue]

\* Color + Color
ColorAdd(c, d) == Color(c.r + d.r, c.g + d.g, c.b + d.b)

\* Color - Color
ColorSub(c, d) == Color(c.r - d.r, c.g - d.g, c.b - d.b)

\* Color * f64
ColorMul(c, k) == Color((c.r * k) \div Scale, (c.g * k) \div Scale, (c.b * k) \div Scale)

\* Gradient::new(a, b)
Gradient(id, a, b) == [id |-> id, a |-> a, b |-> b]

\* pattern_at taking the fraction of x by truncation towards zero
pattern_at_trunc(pattern, point) ==
    ColorAdd(pattern.a,
             ColorMul(ColorSub(pattern.b, pattern.a), point[1] - Trunc(point[1])))

pattern_at(pattern, point) ==
    ColorAdd(pattern.a,
             ColorMul(ColorSub(pattern.b, pattern.a), point[1] - Floor(point[1])))

\* the colours of the gradients: channels 0.0 and 1.0
GradientColors == {Color(0, 0, 0), Color(Scale, Scale, Scale), Color(Scale, 0, 0)}

\* x over several periods on both sides of 0, in steps of 1 / Scale
GradientXs == (0 - MaxX * Scale)..(MaxX * Scale)

GradientPoints == GradientXs \X {0 - 1, 0, Scale + 1} \X {0 - Scale, 0, 1}

PatternAt(a, b, point) ==
    /\ patRet' = [op |-> "pattern_at", pattern |-> Gradient(1, a, b), point |-> point,
                  res |-> pattern_at(Gradient(1, a, b), point)]
    /\ UNCHANGED <<worldVars, planeVars, csgVars, renderVars, viewVars>>

PatternNext ==
    \E a \in GradientColors, b \in GradientColors, point \in GradientPoints :
        PatternAt(a, b, point)

SpecPattern == Init /\ [][PatternNext]_vars

\* the channels of a colour
Channels(c) == <<c.r, c.g, c.b>>

\* C12: Gradient::pattern_at(point) equals a + (b - a) * (x - floor(x)): it
\* depends only on the point's x coordinate, it equals colour a at every
\* integer x, and it repeats with period 1 in x (pattern_at at x and at
\* x + 1 are equal), also for negative x.
C12_GradientPatternAt ==
    patRet.op = "pattern_at" =>
        LET pat == patRet.pattern
            x == patRet.point[1]
            y == patRet.point[2]
            z == patRet.point[3]
        IN  /\ \A ch \in 1..3 :
                   Channels(patRet.res)[ch] * Scale =
                       Channels(pat.a)[ch] * Scale
                       + (Channels(pat.b)[ch] - Channels(pat.a)[ch]) * (x % Scale)
            /\ \A q \in GradientPoints :
                   q[1] = x => pattern_at(pat, q) = patRet.res
            /\ x % Scale = 0 => patRet.res = pat.a
            /\ pattern_at(pat, <<x + Scale, y, z>>) = patRet.res
            /\ pattern_at(pat, <<x - Scale, y, z>>) = patRet.res

\* a gradient between two different colours, asked strictly between two
\* integers at a negative x
C12_Witness ==
    /\ patRet.op = "pattern_at"
    /\ patRet.pattern.a # patRet.pattern.b
    /\ patRet.point[1] < 0
    /\ patRet.point[1] % Scale # 0
    /\ patRet.res # patRet.pattern.a
    /\ patRet.res # patRet.pattern.b

(***************************************************************************)
(* CSG: a node over two spheres of the lattice.  Its filter walks the      *)
(* merged, sorted intersections of the children, one intersection a step.  *)
(***************************************************************************)
CsgOperation == {"Union", "Intersection", "Difference"}

CSG(operation, left, right) ==
    [id |-> 0, operation |-> operation, left |-> left, right |-> right]

\* allowed with Difference keeping what Union keeps
allowed_as_union(op, lhit, inside_left, inside_right) ==
    IF op = "Intersection"
    THEN (lhit /\ inside_right) \/ (~lhit /\ inside_left)
    ELSE (lhit /\ ~inside_right) \/ (~lhit /\ ~inside_left)

allowed(op, lhit, inside_left, inside_right) ==
    CASE op = "Union" -> (lhit /\ ~inside_right) \/ (~lhit /\ ~inside_left)
      [] op = "Intersection" -> (lhit /\ inside_right) \/ (~lhit /\ inside_left)
      [] op = "Difference" -> (lhit /\ ~inside_right) \/ (~lhit /\ inside_left)

\* both children's intersections with r, merged and sorted by t
CsgMerged(node, r) ==
    LET l == intersect(node.left, r)
        rt == intersect(node.right, r)
    IN  SortByT((IF l.some THEN l.val ELSE <<>>) \o (IF rt.some THEN rt.val ELSE <<>>))

CsgFree == csgRet.op = "idle" /\ csgNode = None

\* the truth table, called on its own
Allowed(op, lhit, il, ir) ==
    /\ CsgFree
    /\ csgRet' = [op |-> "allowed", operation |-> op, lhit |-> lhit,
                  inl |-> il, inr |-> ir, res |-> allowed(op, lhit, il, ir)]
    /\ UNCHANGED <<csgNode, csgXs, csgPos, inl, inr, csgOut, worldVars, planeVars, renderVars, patternVars, viewVars>>

\* local_intersect of the node: intersect both children, merge, sort
CsgIntersect(op, cl, cr, r) ==
    /\ CsgFree
    /\ cl # cr
    /\ ExactRay(<<Sphere(1, cl), Sphere(2, cr)>>, r)
    /\ csgNode' = Some(CSG(op, Sphere(1, cl), Sphere(2, cr)))
    /\ csgXs' = CsgMerged(CSG(op, Sphere(1, cl), Sphere(2, cr)), r)
    /\ csgPos' = 1
    /\ inl' = FALSE
    /\ inr' = FALSE
    /\ csgOut' = <<>>
    /\ csgRet' = [op |-> "local_intersect", ray |-> r]
    /\ UNCHANGED <<worldVars, planeVars, renderVars, patternVars, viewVars>>

\* one turn of the filter's loop toggling the flag of the other child
CsgFilterStep_toggle_other ==
    /\ csgNode.some
    /\ csgRet.op = "local_intersect"
    /\ csgPos <= Len(csgXs)
    /\ LET i == csgXs[csgPos]
           lhit == i.object = csgNode.val.left
       IN  /\ csgOut' = IF allowed(csgNode.val.operation, lhit, inl, inr)
                        THEN Append(csgOut, Intersection(i.t, csgNode.val))
                        ELSE csgOut
           /\ inl' = IF lhit THEN inl ELSE ~inl
           /\ inr' = IF lhit THEN ~inr ELSE inr
    /\ csgPos' = csgPos + 1
    /\ UNCHANGED <<csgNode, csgXs, csgRet, worldVars, planeVars, renderVars, patternVars, viewVars>>

\* one turn of the filter's loop: decide, then toggle the child's flag
CsgFilterStep ==
    /\ csgNode.some
    /\ csgRet.op = "local_intersect"
    /\ csgPos <= Len(csgXs)
    /\ LET i == csgXs[csgPos]
           lhit == i.object = csgNode.val.left
       IN  /\ csgOut' = IF allowed(csgNode.val.operation, lhit, inl, inr)
                        THEN Append(csgOut, Intersection(i.t, csgNode.val))
                        ELSE csgOut
           /\ inl' = IF lhit THEN ~inl ELSE inl
           /\ inr' = IF lhit THEN inr ELSE ~inr
    /\ csgPos' = csgPos + 1
    /\ UNCHANGED <<csgNode, csgXs, csgRet, worldVars, planeVars, renderVars, patternVars, viewVars>>

\* the filter is through: an empty result is no intersection
CsgReturn ==
    /\ csgNode.some
    /\ csgRet.op = "local_intersect"
    /\ csgPos > Len(csgXs)
    /\ csgRet' = [op |-> "returned", ray |-> csgRet.ray,
                  res |-> IF csgOut = <<>> THEN None ELSE Some(csgOut)]
    /\ UNCHANGED <<csgNode, csgXs, csgPos, inl, inr, csgOut, worldVars, planeVars, renderVars, patternVars, viewVars>>

CsgNext ==
    \/ \E op \in CsgOperation, lhit \in BOOLEAN, il \in BOOLEAN, ir \in BOOLEAN :
           Allowed(op, lhit, il, ir)
    \/ \E op \in CsgOperation, cl \in Centers, cr \in Centers, r \in Rays :
           CsgIntersect(op, cl, cr, r)
    \/ CsgFilterStep
    \/ CsgReturn

SpecCSG == Init /\ [][CsgNext]_vars

\* the 12 rows of the truth table that keep the intersection:
\* <<operation, hit_is_left, inside_left, inside_right>>
KeptRows ==
    {<<"Union", TRUE, FALSE, FALSE>>, <<"Union", TRUE, TRUE, FALSE>>,
     <<"Union", FALSE, FALSE, FALSE>>, <<"Union", FALSE, FALSE, TRUE>>,
     <<"Intersection", TRUE, FALSE, TRUE>>, <<"Intersection", TRUE, TRUE, TRUE>>,
     <<"Intersection", FALSE, TRUE, FALSE>>, <<"Intersection", FALSE, TRUE, TRUE>>,
     <<"Difference", TRUE, FALSE, FALSE>>, <<"Difference", TRUE, TRUE, FALSE>>,
     <<"Difference", FALSE, TRUE, FALSE>>, <<"Difference", FALSE, TRUE, TRUE>>}

\* C2: for each of the three operations and each of the 8 combinations of
\* (hit_is_left, inside_left, inside_right), allowed is true exactly on the
\* rows of the truth table: Union keeps a hit outside the other child,
\* Intersection a hit inside the other child, Difference a left hit outside
\* the right child and a right hit inside the left child.
C2_AllowedTruthTable ==
    csgRet.op = "allowed" =>
        (csgRet.res <=>
            <<csgRet.operation, csgRet.lhit, csgRet.inl, csgRet.inr>> \in KeptRows)

\* allowed kept a right hit of a Difference inside the left child
C2_Witness ==
    /\ csgRet.op = "allowed"
    /\ csgRet.operation = "Difference"
    /\ ~csgRet.lhit
    /\ csgRet.inl
    /\ csgRet.res


\* the number of intersections of child c among the first n of the merged list
CsgCountOf(c, n) == Cardinality({j \in 1..n : csgXs[j].object = c})

\* the positions of the merged list that the truth table keeps, each judged
\* with the parities of the left and right intersections before it
CsgKept(n) ==
    {k \in 1..n :
        allowed(csgNode.val.operation,
                csgXs[k].object = csgNode.val.left,
                CsgCountOf(csgNode.val.left, k - 1) % 2 = 1,
                CsgCountOf(csgNode.val.right, k - 1) % 2 = 1)}

\* the i-th smallest element of a set of positions
CsgNth(K, i) == CHOOSE k \in K : Cardinality({j \in K : j < k}) = i - 1

\* C13: the CSG filter walks the merged list of the two children in
\* ascending t with both inside flags false at the start; an intersection is
\* kept iff allowed holds for the flags before that intersection toggles its
\* own child's flag, so the flags are the parities of the earlier left and
\* right intersections.  The result is an order-preserving subsequence of
\* the merged list, ascending in t, every kept intersection is tagged with
\* the CSG node, and an empty result is reported as no intersection.
C13_CsgFilter ==
    csgNode.some =>
        LET n == csgPos - 1
            K == CsgKept(n)
        IN  /\ \A k \in 1..(Len(csgXs) - 1) : csgXs[k].t <= csgXs[k + 1].t
            /\ csgPos \in 1..(Len(csgXs) + 1)
            /\ inl = (CsgCountOf(csgNode.val.left, n) % 2 = 1)
            /\ inr = (CsgCountOf(csgNode.val.right, n) % 2 = 1)
            /\ Len(csgOut) = Cardinality(K)
            /\ \A i \in 1..Len(csgOut) :
                   /\ csgOut[i].t = csgXs[CsgNth(K, i)].t
                   /\ csgOut[i].object = csgNode.val
                   /\ csgOut[i].object \notin {csgNode.val.left, csgNode.val.right}
            /\ \A i \in 1..(Len(csgOut) - 1) : csgOut[i].t <= csgOut[i + 1].t
            /\ csgRet.op = "returned" =>
                   /\ n = Len(csgXs)
                   /\ csgRet.res = IF K = {} THEN None ELSE Some(csgOut)

\* a Difference of two overlapping spheres returned two of the four merged
\* intersections, the first and the third dropped or kept by the flags
C13_Witness ==
    /\ csgNode.some
    /\ csgNode.val.operation = "Difference"
    /\ csgRet.op = "returned"
    /\ Len(csgXs) = 4
    /\ csgXs[1].t < csgXs[2].t
    /\ csgXs[1].object # csgXs[2].object
    /\ csgRet.res.some
    /\ Len(csgRet.res.val) = 2

(***************************************************************************)
(* Camera: the sequential and the parallel render of a scene, as the       *)
(* example's render function calls them.  On the lattice the camera casts  *)
(* the ray of pixel (px, py) along the lane py * Radius above its origin,  *)
(* to the right in the even columns and to the left in the odd ones.       *)
(***************************************************************************)
CameraFrom == <<0 - (Radius + 1), 0>>

SceneLight == <<0 - (Radius + EPSILON), Radius + EPSILON>>

Scenes ==
    {World(<<Sphere(1, <<0, 0>>)>>, Some(SceneLight)),
     World(<<Sphere(1, <<Radius + 1, 0>>), Sphere(2, <<0, 0>>)>>, Some(SceneLight)),
     World(<<Sphere(1, <<0, 0>>)>>, None),
     World(<<>>, None)}

Opts == [parallel : BOOLEAN, batch_size : 1..MaxBatch, hsize : 1..MaxH, vsize : 1..MaxV]

NumPixels(o) == o.hsize * o.vsize

ray_for_pixel(o, px, py) ==
    Ray(Add(CameraFrom, <<0, py * Radius>>),
        IF px % 2 = 0 THEN <<1, 0>> ELSE <<0 - 1, 0>>)

\* Canvas::new(hsize, vsize): every pixel black
NewCanvas(o) == [i \in 1..NumPixels(o) |-> BLACK]

\* Camera::render: for y in 0..vsize, for x in 0..hsize, the colour of the
\* ray of pixel (x, y) is written at (x, y), which the canvas keeps at index
\* y * hsize + x; a panic of color_at unwinds the whole call
render(w, o) ==
    LET Px == (0..(o.hsize - 1)) \X (0..(o.vsize - 1))
    IN  The({IF \E p \in Px : px[p].outcome = "panic"
             THEN Panic(<<>>)
             ELSE Ok([i \in 1..NumPixels(o) |->
                         px[CHOOSE q \in Px : q[2] * o.hsize + q[1] + 1 = i].val],
                     <<>>) :
                px \in {[p \in Px |-> color_at(w, ray_for_pixel(o, p[1], p[2]))]}})

\* render_parallel: the flattened pixel indices 0..N-1 in chunks of batch_size
NumBatches(o) == (NumPixels(o) + o.batch_size - 1) \div o.batch_size

\* a worker starting one index early, inside the batch before its own
BatchStart_overlap(o, b) == IF b = 0 THEN 0 ELSE b * o.batch_size - 1

BatchStart(o, b) == b * o.batch_size

BatchLen(o, b) ==
    IF (b + 1) * o.batch_size <= NumPixels(o)
    THEN o.batch_size
    ELSE NumPixels(o) - b * o.batch_size

\* the pixel of a flattened index, with column and row exchanged
PixelOfIndex_swapped(o, idx) == <<idx \div o.hsize, idx % o.hsize>>

PixelOfIndex(o, idx) == <<idx % o.hsize, idx \div o.hsize>>

PixelColor(w, o, idx) ==
    color_at(w, ray_for_pixel(o, PixelOfIndex(o, idx)[1], PixelOfIndex(o, idx)[2]))

SceneInDomain(w, o) ==
    \A x \in 0..(o.hsize - 1), y \in 0..(o.vsize - 1) :
        InDomainColorAt(w, ray_for_pixel(o, x, y))

RenderInit ==
    /\ \E w \in Scenes :
        /\ objects = w.objects
        /\ light = w.light
        /\ added = [k \in 1..Len(w.objects) |-> w.objects[k].id]
        /\ opts \in {o \in Opts : SceneInDomain(w, o)}
    /\ ret = [op |-> "idle"]
    /\ PlaneIdle
    /\ PatternIdle
    /\ ViewNew
    /\ CsgIdle
    /\ RenderIdle

\* render with opts.parallel unset: camera.render(&World::from_str(..))
RenderSequential ==
    /\ status = "idle"
    /\ ~opts.parallel
    /\ \E r \in {render(World(objects, light), opts)} :
           /\ status' = IF r.outcome = "ok" THEN "returned" ELSE "panicked"
           /\ result' = IF r.outcome = "ok" THEN Some(r.val) ELSE None
    /\ UNCHANGED <<opts, canvas, progress, failed, writers, tries, image,
                   worldVars, planeVars, csgVars, patternVars, viewVars>>

\* render with opts.parallel set: camera.render_parallel(.., opts.batch_size)
RenderParallel ==
    /\ status = "idle"
    /\ opts.parallel
    /\ status' = "running"
    /\ canvas' = NewCanvas(opts)
    /\ progress' = [b \in 0..(NumBatches(opts) - 1) |-> 0]
    /\ writers' = [i \in 1..NumPixels(opts) |-> {}]
    /\ tries' = [i \in 1..NumPixels(opts) |-> 0]
    /\ UNCHANGED <<opts, failed, result, image, worldVars, planeVars, csgVars, patternVars, viewVars>>

\* the worker of batch b computes the next pixel of its batch and writes it
Work(b) ==
    /\ status = "running"
    /\ b \notin failed
    /\ progress[b] < BatchLen(opts, b)
    /\ \E idx \in {BatchStart(opts, b) + progress[b]} :
       \E c \in {PixelColor(World(objects, light), opts, idx)} :
           /\ tries' = [tries EXCEPT ![idx + 1] = @ + 1]
           /\ IF c.outcome = "ok"
              THEN /\ canvas' = [canvas EXCEPT ![idx + 1] = c.val]
                   /\ writers' = [writers EXCEPT ![idx + 1] = @ \cup {b}]
                   /\ progress' = [progress EXCEPT ![b] = @ + 1]
                   /\ UNCHANGED failed
              ELSE /\ failed' = failed \cup {b}
                   /\ UNCHANGED <<canvas, writers, progress>>
    /\ UNCHANGED <<opts, status, result, image, worldVars, planeVars, csgVars, patternVars, viewVars>>

\* the final join: every batch is through and the canvas is returned
Join ==
    /\ status = "running"
    /\ failed = {}
    /\ \A b \in DOMAIN progress : progress[b] = BatchLen(opts, b)
    /\ status' = "returned"
    /\ result' = Some(canvas)
    /\ UNCHANGED <<opts, canvas, progress, failed, writers, tries, image,
                   worldVars, planeVars, csgVars, patternVars, viewVars>>

\* a worker's panic is resumed in the caller: the call returns nothing
Propagate ==
    /\ status = "running"
    /\ failed # {}
    /\ status' = "panicked"
    /\ UNCHANGED <<opts, canvas, progress, failed, writers, tries, result, image,
                   worldVars, planeVars, csgVars, patternVars, viewVars>>

\* image::save_buffer on the returned canvas
SaveBuffer ==
    /\ status = "returned"
    /\ status' = "saved"
    /\ image' = result
    /\ UNCHANGED <<opts, canvas, progress, failed, writers, tries, result,
                   worldVars, planeVars, csgVars, patternVars, viewVars>>

RenderNext ==
    \/ RenderSequential
    \/ RenderParallel
    \/ \E b \in DOMAIN progress : Work(b)
    \/ Join
    \/ Propagate
    \/ SaveBuffer

SpecRender == RenderInit /\ [][RenderNext]_vars

\* the canvas indices of batch b
BatchRange(b) ==
    {i \in 0..(NumPixels(opts) - 1) :
        b * opts.batch_size <= i /\ i < (b + 1) * opts.batch_size}

\* C1: for every scene, camera and batch size >= 1, and every interleaving
\* of the workers, the canvas render_parallel returns equals, pixel for
\* pixel, the canvas the sequential render returns for the same scene and
\* camera.
C1_ParallelEqualsSequential ==
    (opts.parallel /\ status \in {"returned", "saved"}) =>
        \A seq \in {render(World(objects, light), opts)} :
            /\ seq.outcome = "ok"
            /\ result.some
            /\ Len(result.val) = NumPixels(opts)
            /\ \A i \in 1..NumPixels(opts) : result.val[i] = seq.val[i]

\* a parallel render returned a canvas of more than one colour from batches
\* whose size does not divide the pixel count
C1_Witness ==
    /\ opts.parallel
    /\ status = "returned"
    /\ NumPixels(opts) % opts.batch_size # 0
    /\ NumBatches(opts) > 1
    /\ \E i, j \in 1..NumPixels(opts) : result.val[i] # result.val[j]

\* C8: the batches partition the flattened pixel indices 0..width*height-1
\* into contiguous ranges; every index belongs to exactly one batch, each
\* worker writes only indices of its own batch, and no index is ever
\* written by two workers.
C8_BatchesPartition ==
    status # "idle" /\ opts.parallel =>
        /\ \A i \in 0..(NumPixels(opts) - 1) :
               Cardinality({b \in DOMAIN progress : i \in BatchRange(b)}) = 1
        /\ \A b \in DOMAIN progress :
               /\ BatchRange(b) # {}
               /\ \A i \in BatchRange(b), j \in BatchRange(b) :
                      \A k \in i..j : k \in BatchRange(b)
               /\ Cardinality(BatchRange(b)) = BatchLen(opts, b)
        /\ \A i \in 1..NumPixels(opts) :
               /\ Cardinality(writers[i]) <= 1
               /\ \A b \in writers[i] : (i - 1) \in BatchRange(b)
        /\ \A b \in DOMAIN progress :
               (b \notin failed /\ progress[b] < BatchLen(opts, b)) =>
                   (BatchStart(opts, b) + progress[b]) \in BatchRange(b)

\* every pixel has been written, by several workers, the last batch being short
C8_Witness ==
    /\ opts.parallel
    /\ status = "returned"
    /\ NumPixels(opts) % opts.batch_size # 0
    /\ Cardinality(UNION {writers[i] : i \in 1..NumPixels(opts)}) > 1
    /\ \A i \in 1..NumPixels(opts) : Cardinality(writers[i]) = 1

\* a pixel whose ray has a hit in a scene without a light: its batch fails
FailingPixel(x, y) == ~light.some /\ NonNegT(ray_for_pixel(opts, x, y)) # {}

SceneFails ==
    \E x \in 0..(opts.hsize - 1), y \in 0..(opts.vsize - 1) : FailingPixel(x, y)

\* C9: a render call, sequential or parallel, either completes every pixel
\* and returns a full canvas or fails as a whole: when a batch fails (on a
\* missing light) no canvas, complete or partial, reaches the caller, and no
\* pixel is computed a second time.
C9_RenderAllOrNothing ==
    status # "idle" =>
        /\ SceneFails => (status \notin {"returned", "saved"} /\ ~result.some /\ ~image.some)
        /\ status = "panicked" => (~result.some /\ ~image.some)
        /\ status \in {"returned", "saved"} =>
               /\ result.some
               /\ Len(result.val) = NumPixels(opts)
               /\ opts.parallel => \A i \in 1..NumPixels(opts) : tries[i] = 1
        /\ opts.parallel => \A i \in 1..NumPixels(opts) : tries[i] <= 1

\* a parallel render failed as a whole after other workers had written pixels
C9_Witness ==
    /\ opts.parallel
    /\ status = "panicked"
    /\ ~result.some
    /\ \E i \in 1..NumPixels(opts) : writers[i] # {}
    /\ \E b \in DOMAIN progress : b \notin failed

(***************************************************************************)
(* The preview loop (show.rs main): each frame draws the window, where the *)
(* user may edit a field, then calls to_view, then View::update.           *)
(***************************************************************************)
\* View::rotate_y by a half turn or by nothing: the direction to - from is
\* turned about the y axis
rotate_y(v, angle) ==
    [v EXCEPT !.need_update = TRUE,
              !.to = IF angle = "half" THEN v.from + (0 - (v.to - v.from))
                     ELSE v.from + (v.to - v.from)]

\* WindowFields::to_view setting need_update whenever the texts parse
to_view_always(fields, v) ==
    The({IF ~from.some \/ ~to.some \/ ~up.some
         THEN [outcome |-> "err", view |-> v]
         ELSE IF ~fov.some
              THEN [outcome |-> "panic", view |-> v]
              ELSE [outcome |-> "ok",
                    view |-> [v EXCEPT !.from = from.val, !.to = to.val,
                                       !.up = up.val, !.fov = fov.val,
                                       !.need_update = TRUE]] :
            from \in {ParsePoint(fields.from)}, to \in {ParsePoint(fields.to)},
            up \in {ParsePoint(fields.up)}, fov \in {ParseFov(fields.fov)}})

\* WindowFields::to_view (the same code as FormFields::to_view): from, to
\* and up return the error of their parse, fov unwraps the result of its own
to_view(fields, v) ==
    The({IF ~from.some \/ ~to.some \/ ~up.some
         THEN [outcome |-> "err", view |-> v]
         ELSE IF ~fov.some
              THEN [outcome |-> "panic", view |-> v]
              ELSE IF from.val # v.from \/ to.val # v.to \/ up.val # v.up
                      \/ fov.val # v.fov
                   THEN [outcome |-> "ok",
                         view |-> [v EXCEPT !.from = from.val, !.to = to.val,
                                            !.up = up.val, !.fov = fov.val,
                                            !.need_update = TRUE]]
                   ELSE [outcome |-> "ok", view |-> v] :
            from \in {ParsePoint(fields.from)}, to \in {ParsePoint(fields.to)},
            up \in {ParsePoint(fields.up)}, fov \in {ParseFov(fields.fov)}})

\* View::update: nothing unless need_update, else a new picture
update(v) ==
    IF ~v.need_update
    THEN [view |-> v, rendered |-> FALSE]
    ELSE [view |-> [v EXCEPT !.texture = Texture(v.from, v.to, v.up, v.fov),
                             !.need_update = FALSE],
          rendered |-> TRUE]

\* the texts the user leaves in a field
FieldTexts ==
    [from |-> {FmtPoint(n) : n \in Vals} \cup {FmtPointWhole(1), "{x:"},
     to   |-> {FmtPoint(n) : n \in Vals} \cup {"{x:"},
     up   |-> {FmtPoint(n) : n \in UpVals} \cup {""},
     fov  |-> {FmtFov(n) : n \in FovVals} \cup {FmtFovFraction(1), ""}]

\* draw_window: the user leaves text in one of the fields (which may be the
\* text it holds already)
DrawWindow(field, text) ==
    /\ pc = "frame_start"
    /\ win_fields' = [win_fields EXCEPT ![field] = text]
    /\ pc' = "to_view"
    /\ UNCHANGED <<view, frame, worldVars, planeVars, patternVars, csgVars, renderVars>>

\* a caller turns the camera before the frame's to_view
RotateY(angle) ==
    /\ pc = "frame_start"
    /\ ~frame.rotated
    /\ rotate_y(view, angle).to \in Vals
    /\ view' = rotate_y(view, angle)
    /\ frame' = [frame EXCEPT !.rotated = TRUE]
    /\ UNCHANGED <<win_fields, pc, worldVars, planeVars, patternVars, csgVars, renderVars>>

\* if win_fields.to_view(&mut view).is_err() { win_fields = from_view(&view) };
\* a panic of to_view ends the process
ToView ==
    /\ pc = "to_view"
    /\ \E r \in {to_view(win_fields, view)} :
           /\ frame' = [frame EXCEPT !.res = r.outcome, !.pre = view,
                                     !.txt = win_fields]
           /\ view' = r.view
           /\ win_fields' = IF r.outcome = "err" THEN from_view(r.view) ELSE win_fields
           /\ pc' = IF r.outcome = "panic" THEN "aborted" ELSE "update"
    /\ UNCHANGED <<worldVars, planeVars, patternVars, csgVars, renderVars>>

\* view.update()
Update ==
    /\ pc = "update"
    /\ \E u \in {update(view)} :
           /\ view' = u.view
           /\ frame' = [frame EXCEPT !.rendered = u.rendered]
    /\ pc' = "frame_end"
    /\ UNCHANGED <<win_fields, worldVars, planeVars, patternVars, csgVars, renderVars>>

\* view.update() whose render_parallel panics: the process ends
UpdatePanic ==
    /\ pc = "update"
    /\ view.need_update
    /\ pc' = "aborted"
    /\ UNCHANGED <<view, win_fields, frame, worldVars, planeVars, patternVars, csgVars,
                   renderVars>>

\* next_frame().await
NextFrame ==
    /\ pc = "frame_end"
    /\ pc' = "frame_start"
    /\ frame' = NewFrame(view)
    /\ UNCHANGED <<view, win_fields, worldVars, planeVars, patternVars, csgVars, renderVars>>

ViewNext ==
    \/ \E field \in DOMAIN FieldTexts : \E text \in FieldTexts[field] :
           DrawWindow(field, text)
    \/ \E angle \in {"none", "half"} : RotateY(angle)
    \/ ToView
    \/ Update
    \/ UpdatePanic
    \/ NextFrame

SpecView == Init /\ [][ViewNext]_vars

\* the four texts parse
FieldsParse(f) ==
    /\ ParsePoint(f.from).some
    /\ ParsePoint(f.to).some
    /\ ParsePoint(f.up).some
    /\ ParseFov(f.fov).some

\* the texts parse to values of which at least one is not the view's
ParsedDiffer(f, v) ==
    /\ FieldsParse(f)
    /\ \/ ParsePoint(f.from).val # v.from
       \/ ParsePoint(f.to).val # v.to
       \/ ParsePoint(f.up).val # v.up
       \/ ParseFov(f.fov).val # v.fov

\* C16: need_update becomes true only when to_view parses camera fields of
\* which at least one differs from the view's current value, or when
\* rotate_y is called; View::update re-renders only when need_update is
\* true, does nothing when it is false, and leaves need_update false, so
\* need_update is false at the end of every frame and a frame whose fields
\* equal the view's values triggers no render.
C16_NeedUpdate ==
    /\ [](pc = "frame_end" =>
            /\ ~view.need_update
            /\ frame.rendered <=>
                   (frame.rotated
                    \/ (frame.res = "ok" /\ ParsedDiffer(win_fields, frame.pre))))
    /\ [][/\ (view'.need_update /\ ~view.need_update) =>
                 \/ (frame'.rotated /\ ~frame.rotated)
                 \/ (pc = "to_view" /\ ParsedDiffer(win_fields, view))
          /\ (pc = "update" /\ pc' = "frame_end") =>
                 /\ ~view'.need_update
                 /\ ~view.need_update => (view' = view /\ win_fields' = win_fields)
                 /\ view'.texture # view.texture => view.need_update]_vars

\* a frame ended without a render although a field's text is not the one
\* from_view writes: the text parses to the view's value
C16_Witness ==
    /\ pc = "frame_end"
    /\ frame.res = "ok"
    /\ ~frame.rendered
    /\ win_fields # from_view(view)

\* what to_view has done to the view it was given, when it returned
ToViewReturned ==
    pc = "update" =>
        /\ frame.res \in {"ok", "err"}
        /\ frame.res = "ok" =>
               /\ ParsedDiffer(win_fields, frame.pre) =>
                      /\ view.from = ParsePoint(win_fields.from).val
                      /\ view.to = ParsePoint(win_fields.to).val
                      /\ view.up = ParsePoint(win_fields.up).val
                      /\ view.fov = ParseFov(win_fields.fov).val
                      /\ view.need_update
               /\ ~ParsedDiffer(win_fields, frame.pre) => view = frame.pre
        /\ frame.res = "err" =>
               /\ view = frame.pre
               /\ win_fields = from_view(frame.pre)

\* C17 as the spec states it: for every text in the four camera fields,
\* to_view either returns Ok, having set all four view values when any
\* differs, or returns Err with the view unchanged (never a partial update);
\* it never aborts the process, and after an Err the preview loop resets the
\* field texts from the unchanged view.
C17_ToViewNeverAborts ==
    /\ ToViewReturned
    /\ frame.res # "panic"

\* C17 as the code has it: to_view returns Ok or Err as stated, without a
\* partial update, unless the texts of from, to and up parse and the text of
\* fov does not; then, and only then, it aborts the process.
C17_ToViewAbortsOnFov ==
    /\ ToViewReturned
    /\ frame.res = "panic" =>
           /\ pc = "aborted"
           /\ ParsePoint(win_fields.from).some
           /\ ParsePoint(win_fields.to).some
           /\ ParsePoint(win_fields.up).some
           /\ ~ParseFov(win_fields.fov).some
           /\ view = frame.pre
    /\ (pc = "update" /\ frame.res = "ok") => FieldsParse(win_fields)
    /\ (pc = "update" /\ frame.res = "err") =>
           \/ ~ParsePoint(frame.txt.from).some
           \/ ~ParsePoint(frame.txt.to).some
           \/ ~ParsePoint(frame.txt.up).some

\* the process was aborted by to_view on a fov text that is no number
C17_Witness ==
    /\ pc = "aborted"
    /\ frame.res = "panic"
    /\ win_fields.fov = ""
    /\ ParsePoint(win_fields.from).some

====
